---- MODULE Spec2Model ----
(***************************************************************************)
(* A model of src/src/backup.py: the backup job of main(), the workers     *)
(* backup_router() that the thread pool runs, the commit+retention region  *)
(* guarded by GIT_LOCK, and cleanup_old_backups().                         *)
(*                                                                         *)
(* A worker is identified by the index of its entry in ROUTER_HOSTS.  The  *)
(* disk is the set of snapshot files under BACKUP_DIR, each with its       *)
(* modification time; the version history is the sequence of commits.      *)
(***************************************************************************)
EXTENDS Integers, Sequences, FiniteSets, TLC

VARIABLES
    hosts,            \* ROUTER_HOSTS: the configured list of entries
    creds,            \* USERNAME and PASSWORD are both set
    limit,            \* MAX_BACKUPS
    now,              \* the wall clock, in seconds
    mclock,           \* the modification time of the last file written
    disk,             \* path -> modification time, for the files on disk
    repoOpen,         \* init_git_repo() has run
    commits,          \* the version history: the committed paths, in order
    lock,             \* GIT_LOCK: 0 when free, else the worker holding it
    mainpc,           \* where main() is
    max_workers,      \* the size of the thread pool
    submitted,        \* how many entries the dict comprehension has visited
    queue,            \* the pool's work queue (submitted, not yet started)
    pc,               \* per worker: where backup_router is
    ident,            \* per worker: device_hostname after sanitizing
    stamp,            \* per worker: the timestamp of its filename
    listing,          \* per worker: `files` of cleanup_old_backups, sorted
    steps,            \* per worker: the store operations it has performed
    result,           \* per worker: what backup_router returned
    success_details,  \* main(): the BackupRecords, in completion order
    failed_hosts,     \* main(): the FailureRecords, in completion order
    notifications,    \* how many times send_telegram_notification was called
    config_output,    \* per worker: the lines the device sends for the command
    device_hostname,  \* per worker: device_hostname before sanitizing
    index,            \* the paths staged in the repository's index
    posts,            \* how many times requests.post was called
    delivery          \* what became of the notification

vars == <<hosts, creds, limit, now, mclock, disk, repoOpen, commits, lock,
          mainpc, max_workers, submitted, queue, pc, ident, stamp, listing,
          steps, result, success_details, failed_hosts,
          notifications, config_output, device_hostname, index, posts,
          delivery>>

(***************************************************************************)
(* Bounds of the model.                                                    *)
(***************************************************************************)
MaxHosts == 2     \* longest ROUTER_HOSTS list of the general specification
MaxLimit == 2     \* largest MAX_BACKUPS
MaxPrior == 2     \* most snapshot files on disk before the job
MaxTicks == 1     \* how many seconds may pass while the job runs
MaxFiles == 3     \* most snapshot files of one identity before a retention pass
MaxCalls == 2     \* most consecutive calls of cleanup_old_backups
MaxAdds  == 1     \* most files written between those calls
MaxLines == 2     \* most lines of a configuration text
MaxWords == 2     \* most words of a line

(***************************************************************************)
(* Program constants.                                                      *)
(***************************************************************************)
PoolCap == 10     \* min(len(ROUTER_HOSTS), 10)

(***************************************************************************)
(* Text.  A Python str is the sequence of its characters, each a           *)
(* one-character string; the operators below are the str methods that      *)
(* backup_router and main() call.                                          *)
(***************************************************************************)
\* f(x) with x evaluated once, as Python evaluates an argument
Apply(f(_), x) == CHOOSE r \in {f(v) : v \in {x}} : TRUE

Whitespace == {" ", "\t", "\r"}

RECURSIVE LStrip(_)
LStrip(s) == IF s /= <<>> /\ Head(s) \in Whitespace THEN LStrip(Tail(s)) ELSE s

RECURSIVE RStrip(_)
RStrip(s) ==
    IF s /= <<>> /\ s[Len(s)] \in Whitespace THEN RStrip(SubSeq(s, 1, Len(s) - 1)) ELSE s

\* str.strip()
Strip(s) == RStrip(LStrip(s))

\* str.lower(), for the capitals that occur in the model's texts
LowerChar(c) ==
    LET upper == <<"A", "E", "H", "M", "N", "O", "R", "S", "T">>
        lower == <<"a", "e", "h", "m", "n", "o", "r", "s", "t">>
    IN  IF \E i \in 1..Len(upper) : upper[i] = c
        THEN lower[CHOOSE i \in 1..Len(upper) : upper[i] = c]
        ELSE c

Lower(s) == [i \in 1..Len(s) |-> LowerChar(s[i])]

\* `sub in s`
Contains(s, sub) ==
    \E i \in 0..(Len(s) - Len(sub)) : SubSeq(s, i + 1, i + Len(sub)) = sub

\* s.startswith(c), for a one-character prefix
StartsWith(s, c) == s /= <<>> /\ s[1] = c

\* the length of the first whitespace-delimited word of t
WordLen(t) ==
    IF \E i \in 1..Len(t) : t[i] \in Whitespace
    THEN (CHOOSE i \in 1..Len(t) :
              t[i] \in Whitespace /\ \A j \in 1..(i - 1) : t[j] \notin Whitespace) - 1
    ELSE Len(t)

\* str.split(): the whitespace-delimited words
RECURSIVE Split(_)
Split(s) ==
    LET words(t) ==
            IF t = <<>> THEN <<>>
            ELSE <<SubSeq(t, 1, WordLen(t))>> \o Split(SubSeq(t, WordLen(t) + 1, Len(t)))
    IN  Apply(words, LStrip(s))

\* str.replace(old, new), for a one-character `old`
RECURSIVE Replace(_, _, _)
Replace(s, old, new) ==
    IF s = <<>> THEN <<>>
    ELSE (IF Head(s) = old THEN new ELSE <<Head(s)>>) \o Replace(Tail(s), old, new)

\* " ".join(words)
RECURSIVE Join(_)
Join(words) ==
    IF words = <<>> THEN <<>>
    ELSE IF Len(words) = 1 THEN words[1]
    ELSE words[1] \o <<" ">> \o Join(Tail(words))

(***************************************************************************)
(* backup_router, lines 136-143: the hostname the configuration declares.  *)
(***************************************************************************)
Keyword == <<"h", "o", "s", "t", "n", "a", "m", "e">>

\* a line is taken when the keyword occurs anywhere in it
IsHostnameLine_Substring(line) ==
    /\ Apply(LAMBDA low : Contains(low, Keyword), Lower(line))
    /\ ~StartsWith(Strip(line), "!")
    /\ ~StartsWith(Strip(line), "#")
    /\ Len(Split(line)) >= 2

\* both `if`s of the loop body
IsHostnameLine(line) ==
    /\ Apply(LAMBDA low : Contains(low, Keyword), Lower(line))
    /\ ~StartsWith(Strip(line), "!")
    /\ ~StartsWith(Strip(line), "#")
    /\ Apply(LAMBDA parts : Len(parts) >= 2 /\ Lower(parts[1]) = Keyword, Split(line))

\* the loop: the first line taken wins (break); none: hostname.strip()
RECURSIVE ParseHostname(_, _)
ParseHostname(lines, hostname) ==
    IF lines = <<>> THEN Strip(hostname)
    ELSE IF IsHostnameLine(Head(lines)) THEN Split(Head(lines))[2]
    ELSE Apply(LAMBDA rest : ParseHostname(rest, hostname), Tail(lines))

(***************************************************************************)
(* backup_router, line 146: the chain of replace calls.                    *)
(***************************************************************************)
\* s.replace(olds[1], new).replace(olds[2], new)...
RECURSIVE ReplaceEach(_, _, _)
ReplaceEach(s, olds, new) ==
    IF olds = <<>> THEN s
    ELSE Apply(LAMBDA t : ReplaceEach(t, Tail(olds), new), Replace(s, Head(olds), new))

Sanitize(s) ==
    Apply(LAMBDA t : ReplaceEach(t, <<"/", "\\", ":", "*", "?", "\"", "<", ">", "|">>, <<"_">>),
          Replace(s, ";", <<>>))

(***************************************************************************)
(* The devices.  What a device does is a function of its address: whether  *)
(* the session opens and the command runs, and the configuration text it   *)
(* returns.                                                                *)
(***************************************************************************)
Entries == {<<>>, <<"a">>, <<" ", "a">>, <<"b">>, <<"c">>, <<"d">>, <<"e">>, <<"f">>, <<"g">>}

\* client.connect / exec_command: "ok", or the exception raised
Reach(h) ==
    CASE Strip(h) = <<"d">> -> "auth"      \* paramiko.AuthenticationException
      [] Strip(h) = <<"e">> -> "ssh"       \* paramiko.SSHException
      [] Strip(h) = <<"f">> -> "error"     \* any other exception (socket.timeout, ...)
      [] Strip(h) = <<"g">> -> "raised"    \* an exception that escapes backup_router
      [] OTHER   -> "ok"

R1 == <<"r", "1">>

\* config_output.split('\n'): a declares r1 after a comment that names
\* another, b declares r1 indented and in capitals, c names the keyword
\* only as the second word of a line
ConfigOf(h) ==
    CASE Strip(h) = <<"a">> -> <<Join(<<<<"!">>, Keyword, <<"x">>>>), Join(<<Keyword, R1>>)>>
      [] Strip(h) = <<"b">> -> <<<<" ">> \o Join(<<<<"H", "O", "S", "T", "N", "A", "M", "E">>, R1, <<"x">>>>)>>
      [] Strip(h) = <<"c">> -> <<Join(<<<<"x">>, Keyword>>)>>
      [] OTHER   -> <<>>

\* device_hostname after lines 136-146
DeviceHostname(text, hostname) == Apply(Sanitize, ParseHostname(text, hostname))

RECURSIVE SeqsUpTo(_, _)
SeqsUpTo(S, n) ==
    IF n = 0 THEN {<<>>}
    ELSE LET shorter == SeqsUpTo(S, n - 1)
         IN  shorter \cup {Append(s, x) : s \in {t \in shorter : Len(t) = n - 1}, x \in S}

\* "".split(",") is [''], never the empty list
HostLists == {s \in SeqsUpTo(Entries, MaxHosts) : Len(s) >= 1}

Workers == 1..Len(hosts)

Min(a, b) == IF a < b THEN a ELSE b
Max(a, b) == IF a > b THEN a ELSE b

(***************************************************************************)
(* Files: {BACKUP_DIR}/{id}/{id}_{ts}.conf is the path [id, ts].           *)
(***************************************************************************)
Path(id, ts) == [id |-> id, ts |-> ts]
NoPath == [id |-> <<>>, ts |-> 0]

OnDisk(d) == DOMAIN d

\* fnmatch: where the character class opened at pat[i] closes, 0 when it
\* does not close (the "[" is then an ordinary character)
ClassEnd(pat, i) ==
    LET n  == Len(pat)
        j1 == IF i + 1 <= n /\ pat[i + 1] = "!" THEN i + 2 ELSE i + 1
        j2 == IF j1 <= n /\ pat[j1] = "]" THEN j1 + 1 ELSE j1
    IN  IF \E j \in j2..n : pat[j] = "]"
        THEN CHOOSE j \in j2..n : pat[j] = "]" /\ \A k \in j2..(j - 1) : pat[k] /= "]"
        ELSE 0

\* fnmatch.fnmatch(name, pat) from position i of pat and j of name, for
\* patterns without "-" inside a class
RECURSIVE FnMatchFrom(_, _, _, _)
FnMatchFrom(pat, i, name, j) ==
    IF i > Len(pat) THEN j > Len(name)
    ELSE IF pat[i] = "*"
    THEN \E k \in j..(Len(name) + 1) : FnMatchFrom(pat, i + 1, name, k)
    ELSE IF j > Len(name) THEN FALSE
    ELSE IF pat[i] = "?" THEN FnMatchFrom(pat, i + 1, name, j + 1)
    ELSE IF pat[i] = "[" /\ ClassEnd(pat, i) /= 0
    THEN LET close   == ClassEnd(pat, i)
             negated == pat[i + 1] = "!"
             first   == IF negated THEN i + 2 ELSE i + 1
             members == {pat[k] : k \in first..(close - 1)}
         IN  /\ (name[j] \in members) /= negated
             /\ FnMatchFrom(pat, close + 1, name, j + 1)
    ELSE pat[i] = name[j] /\ FnMatchFrom(pat, i + 1, name, j + 1)

FnMatch(name, pat) == FnMatchFrom(pat, 1, name, 1)

\* the file name {id}_{ts}.conf: the digits of the timestamp are one
\* element, the extension another
FileName(p) == p.id \o <<"_", "0", ".conf">>

\* glob of {BACKUP_DIR}/{id}/{id}_*.conf: the directory and the file name
\* are both matched as patterns
GlobMatches(id, p) ==
    /\ FnMatch(p.id, id)
    /\ FnMatch(FileName(p), id \o <<"_", "*", ".conf">>)

\* glob.glob(os.path.join(hostname_dir, f"{hostname}_*.conf"))
Glob(d, id) == {p \in OnDisk(d) : GlobMatches(id, p)}

\* files.sort(key=os.path.getmtime): oldest first
RECURSIVE SortByMtime(_, _)
SortByMtime(d, S) ==
    LET sorted(files) ==
            IF files = {} THEN <<>>
            ELSE LET oldest == CHOOSE p \in files : \A q \in files : d[p] <= d[q]
                 IN  <<oldest>> \o SortByMtime(d, files \ {oldest})
    IN  Apply(sorted, S)

\* Python's s[:k]
SliceTo(s, k) ==
    LET end == IF k < 0 THEN Max(Len(s) + k, 0) ELSE Min(k, Len(s))
    IN  SubSeq(s, 1, end)

\* a slice that takes the oldest max_backups files
FilesToDelete_OldestN(files, max_backups) ==
    IF Len(files) > max_backups THEN SliceTo(files, max_backups) ELSE <<>>

\* files_to_delete of cleanup_old_backups, for the sorted list `files`
FilesToDelete(files, max_backups) ==
    IF Len(files) > max_backups THEN SliceTo(files, 0 - max_backups) ELSE <<>>

Range(s) == {s[i] : i \in 1..Len(s)}

WriteTo(d, p, m) == [q \in OnDisk(d) \cup {p} |-> IF q = p THEN m ELSE d[q]]
Remove(d, S) == [q \in OnDisk(d) \ S |-> d[q]]

\* the files on disk before the job: n snapshots of r1, written at seconds
\* 1..n in that order
PriorDisk(n) == [p \in {Path(R1, t) : t \in 1..n} |-> p.ts]

(***************************************************************************)
(* What backup_router returns.                                             *)
(***************************************************************************)
NoResult == [success |-> FALSE, hostname |-> <<>>, ip |-> <<>>, filename |-> NoPath, error |-> "none"]
Success(e) ==
    [success |-> TRUE, hostname |-> ident[e], ip |-> Strip(hosts[e]),
     filename |-> Path(ident[e], stamp[e]), error |-> ""]
Failure(e, err) ==
    [success |-> FALSE, hostname |-> <<>>, ip |-> Strip(hosts[e]), filename |-> NoPath, error |-> err]

Running == {e \in Workers : pc[e] \in {"connect", "write", "stat", "lock", "commit", "list", "delete", "exit"}}
InRegion == {e \in Workers : pc[e] \in {"commit", "list", "delete", "exit"}}
Dispatched == {e \in Workers : hosts[e] /= <<>>}

(***************************************************************************)
(* The state when main() is entered.                                       *)
(***************************************************************************)
InitWith(hs, prior) ==
    /\ hosts = hs
    /\ creds \in BOOLEAN
    /\ limit \in 0..MaxLimit
    /\ now = MaxPrior + 1
    /\ mclock = prior
    /\ disk = PriorDisk(prior)
    /\ repoOpen = FALSE
    /\ commits = <<>>
    /\ lock = 0
    /\ mainpc = "start"
    /\ max_workers = 0
    /\ submitted = 0
    /\ queue = <<>>
    /\ pc = [e \in 1..Len(hs) |-> "idle"]
    /\ ident = [e \in 1..Len(hs) |-> <<>>]
    /\ stamp = [e \in 1..Len(hs) |-> 0]
    /\ listing = [e \in 1..Len(hs) |-> <<>>]
    /\ steps = [e \in 1..Len(hs) |-> <<>>]
    /\ result = [e \in 1..Len(hs) |-> NoResult]
    /\ success_details = <<>>
    /\ failed_hosts = <<>>
    /\ notifications = 0
    /\ config_output = [e \in 1..Len(hs) |-> ConfigOf(hs[e])]
    /\ device_hostname = [e \in 1..Len(hs) |-> <<>>]
    /\ index = {}
    /\ posts = 0
    /\ delivery = "none"

Init == \E hs \in HostLists, prior \in 0..MaxPrior : InitWith(hs, prior)

(***************************************************************************)
(* The wall clock.  Only get_timestamp() reads it, so a tick is observed   *)
(* only by a worker that is about to call get_timestamp(): the seconds     *)
(* that pass at any other moment are modelled as passing then.             *)
(***************************************************************************)
Tick ==
    /\ now < MaxPrior + 1 + MaxTicks
    /\ \E e \in Workers : pc[e] = "write"
    /\ now' = now + 1
    /\ UNCHANGED <<hosts, creds, limit, mclock, disk, repoOpen, commits, lock,
                   mainpc, max_workers, submitted, queue, pc, ident, stamp,
                   listing, steps, result,
                   success_details, failed_hosts, notifications,
                   config_output, device_hostname, index, posts, delivery>>

(***************************************************************************)
(* main(), lines 209-231: the pre-dispatch checks, then the repository and *)
(* the pool size.                                                          *)
(***************************************************************************)
\* a pool with one thread per entry
MaxWorkers_Uncapped(hs) == Len(hs)

MaxWorkers(hs) == Min(Len(hs), PoolCap)

\* a check that lets a run without credentials through
Misconfigured_HostsOnly(hs, c) == hs = <<>> \/ hs = <<<<>>>>

\* the two early returns of lines 209-215
Misconfigured(hs, c) == hs = <<>> \/ hs = <<<<>>>> \/ ~c

CheckConfig ==
    /\ mainpc = "start"
    /\ IF Misconfigured(hosts, creds)
       THEN /\ mainpc' = "done"
            /\ UNCHANGED <<repoOpen, max_workers>>
       ELSE /\ mainpc' = "submit"
            /\ repoOpen' = TRUE
            /\ max_workers' = MaxWorkers(hosts)
    /\ UNCHANGED <<hosts, creds, limit, now, mclock, disk, commits, lock,
                   submitted, queue, pc, ident, stamp, listing, steps, result, success_details, failed_hosts,
                   notifications,
                   config_output, device_hostname, index, posts, delivery>>

(***************************************************************************)
(* main(), line 235: the dict comprehension visits the entries in order    *)
(* and submits backup_router for each entry that is not empty.             *)
(***************************************************************************)
ShouldSubmit(h) == h /= <<>>

Submit ==
    /\ mainpc = "submit"
    /\ LET i == submitted + 1
       IN  /\ submitted' = i
           /\ IF ShouldSubmit(hosts[i])
              THEN /\ pc' = [pc EXCEPT ![i] = "queued"]
                   /\ queue' = Append(queue, i)
              ELSE UNCHANGED <<pc, queue>>
           /\ mainpc' = IF i = Len(hosts) THEN "collect" ELSE "submit"
    /\ UNCHANGED <<hosts, creds, limit, now, mclock, disk, repoOpen, commits,
                   lock, max_workers, ident, stamp, listing, steps, result, success_details, failed_hosts,
                   notifications,
                   config_output, device_hostname, index, posts, delivery>>

(***************************************************************************)
(* ThreadPoolExecutor: a pool thread takes the oldest queued work item;    *)
(* the pool has at most max_workers threads, each running one item.        *)
(***************************************************************************)
PoolHasRoom(running, cap) == Cardinality(running) < cap

Start(e) ==
    /\ queue /= <<>>
    /\ e = Head(queue)
    /\ PoolHasRoom(Running, max_workers)
    /\ queue' = Tail(queue)
    /\ pc' = [pc EXCEPT ![e] = "connect"]
    /\ UNCHANGED <<hosts, creds, limit, now, mclock, disk, repoOpen, commits,
                   lock, mainpc, max_workers, submitted, ident, stamp, listing,
                   steps, result, success_details,
                   failed_hosts, notifications,
                   config_output, device_hostname, index, posts, delivery>>

\* the worker returns (False, error_msg) from one of the except clauses
Fail(e, err) ==
    /\ result' = [result EXCEPT ![e] = Failure(e, err)]
    /\ pc' = [pc EXCEPT ![e] = "returned"]

(***************************************************************************)
(* backup_router, lines 109-152: open the session, run the command,        *)
(* derive and sanitize the identity, make its directory.                   *)
(***************************************************************************)
\* only the authentication failure is caught
SessionFailed_AuthOnly(h) == Reach(h) = "auth"

SessionFailed(h) == Reach(h) /= "ok"

Connect(e) ==
    /\ pc[e] = "connect"
    /\ IF SessionFailed(hosts[e])
       THEN /\ Fail(e, Reach(hosts[e]))
            /\ UNCHANGED <<ident, device_hostname>>
       ELSE /\ device_hostname' = [device_hostname EXCEPT ![e] =
                                     ParseHostname(config_output[e], hosts[e])]
            /\ ident' = [ident EXCEPT ![e] = DeviceHostname(config_output[e], hosts[e])]
            /\ pc' = [pc EXCEPT ![e] = "write"]
            /\ UNCHANGED result
    /\ UNCHANGED <<hosts, creds, limit, now, mclock, disk, repoOpen, commits,
                   lock, mainpc, max_workers, submitted, queue, stamp, listing,
                   steps, success_details, failed_hosts,
                   notifications,
                   config_output, index, posts, delivery>>

(***************************************************************************)
(* backup_router, lines 155-160: take the timestamp, open the file for     *)
(* writing and write the configuration.  open() or write() may raise:      *)
(* "noopen" leaves no file, "partial" leaves the file open() created.      *)
(***************************************************************************)
get_timestamp(clock) == clock

WriteFile(e) ==
    /\ pc[e] = "write"
    /\ stamp' = [stamp EXCEPT ![e] = get_timestamp(now)]
    /\ \E outcome \in {"ok", "noopen", "partial"} :
         LET filepath == Path(ident[e], get_timestamp(now))
         IN  /\ IF outcome = "noopen"
                THEN UNCHANGED <<disk, mclock>>
                ELSE /\ mclock' = mclock + 1
                     /\ disk' = WriteTo(disk, filepath, mclock + 1)
             /\ IF outcome = "ok"
                THEN /\ pc' = [pc EXCEPT ![e] = "stat"]
                     /\ steps' = [steps EXCEPT ![e] = Append(@, "write")]
                     /\ UNCHANGED result
                ELSE /\ Fail(e, "oserror")
                     /\ steps' = [steps EXCEPT ![e] = Append(@, "write_failed")]
    /\ UNCHANGED <<hosts, creds, limit, now, repoOpen, commits, lock, mainpc,
                   max_workers, submitted, queue, ident, listing,
                   success_details, failed_hosts, notifications,
                   config_output, device_hostname, index, posts, delivery>>

(***************************************************************************)
(* backup_router, lines 163-170: os.path.getsize(filepath) raises          *)
(* FileNotFoundError when the file is no longer on disk.                   *)
(***************************************************************************)
Stat(e) ==
    /\ pc[e] = "stat"
    /\ IF Path(ident[e], stamp[e]) \in OnDisk(disk)
       THEN /\ pc' = [pc EXCEPT ![e] = "lock"]
            /\ UNCHANGED result
       ELSE Fail(e, "enoent")
    /\ UNCHANGED <<hosts, creds, limit, now, mclock, disk, repoOpen, commits,
                   lock, mainpc, max_workers, submitted, queue, ident, stamp,
                   listing, steps, success_details, failed_hosts,
                   notifications,
                   config_output, device_hostname, index, posts, delivery>>

(***************************************************************************)
(* backup_router, line 173: `with GIT_LOCK:` blocks until the lock is free.*)
(***************************************************************************)
\* a `with` that does not wait for the lock
CanAcquire_NoWait(l) == TRUE

CanAcquire(l) == l = 0

Acquire(e) ==
    /\ pc[e] = "lock"
    /\ CanAcquire(lock)
    /\ lock' = e
    /\ pc' = [pc EXCEPT ![e] = "commit"]
    /\ UNCHANGED <<hosts, creds, limit, now, mclock, disk, repoOpen, commits,
                   mainpc, max_workers, submitted, queue, ident, stamp,
                   listing, steps, result, success_details, failed_hosts,
                   notifications,
                   config_output, device_hostname, index, posts, delivery>>

(***************************************************************************)
(* commit_to_git, lines 61-71: stage the file, then commit.  index.add     *)
(* raises when the file is not on disk, and the commit may fail for a      *)
(* reason of the store ("uncommitted"); the exception is caught and        *)
(* printed.                                                                *)
(***************************************************************************)
Commit(e) ==
    /\ pc[e] = "commit"
    /\ \E outcome \in {"ok", "uncommitted"} :
         LET relative_path == Path(ident[e], stamp[e])
             staged == relative_path \in OnDisk(disk)
         IN  /\ index' = IF staged THEN index \cup {relative_path} ELSE index
             /\ IF staged /\ outcome = "ok"
                THEN /\ commits' = Append(commits, relative_path)
                     /\ steps' = [steps EXCEPT ![e] = Append(@, "commit")]
                ELSE /\ UNCHANGED commits
                     /\ steps' = [steps EXCEPT ![e] = Append(@, "commit_failed")]
    /\ pc' = [pc EXCEPT ![e] = "list"]
    /\ UNCHANGED <<hosts, creds, limit, now, mclock, disk, repoOpen, lock,
                   mainpc, max_workers, submitted, queue, ident, stamp,
                   listing, result, success_details, failed_hosts,
                   notifications, config_output, device_hostname, posts,
                   delivery>>

(***************************************************************************)
(* cleanup_old_backups, lines 77-86: list the snapshot files of the        *)
(* identity and sort them by modification time.                            *)
(***************************************************************************)
CleanupList(e) ==
    /\ pc[e] = "list"
    /\ listing' = [listing EXCEPT ![e] = SortByMtime(disk, Glob(disk, ident[e]))]
    /\ pc' = [pc EXCEPT ![e] = "delete"]
    /\ UNCHANGED <<hosts, creds, limit, now, mclock, disk, repoOpen, commits,
                   lock, mainpc, max_workers, submitted, queue, ident, stamp,
                   steps, result, success_details, failed_hosts,
                   notifications,
                   config_output, device_hostname, index, posts, delivery>>

(***************************************************************************)
(* cleanup_old_backups, lines 88-99: remove files_to_delete in order.      *)
(* os.remove may raise: the files before it are gone, the rest stay, and   *)
(* the exception is caught and printed.  The removal from the index is     *)
(* commented out (lines 93-97): the index stays as it is.                  *)
(***************************************************************************)
\* the removal from the index, were it not commented out
IndexAfterCleanup_Removed(staged, deleted) == staged \ deleted

IndexAfterCleanup(staged, deleted) == staged

CleanupDelete(e) ==
    /\ pc[e] = "delete"
    /\ LET files_to_delete == FilesToDelete(listing[e], limit)
       IN  \E removed \in 0..Len(files_to_delete) :
             /\ disk' = Remove(disk, Range(SubSeq(files_to_delete, 1, removed)))
             /\ index' = IndexAfterCleanup(index, Range(SubSeq(files_to_delete, 1, removed)))
             /\ steps' = [steps EXCEPT ![e] =
                            Append(@, IF removed = Len(files_to_delete)
                                      THEN "cleanup" ELSE "cleanup_failed")]
    /\ pc' = [pc EXCEPT ![e] = "exit"]
    /\ UNCHANGED <<hosts, creds, limit, now, mclock, repoOpen, commits, lock,
                   mainpc, max_workers, submitted, queue, ident, stamp,
                   listing, result, success_details, failed_hosts,
                   notifications,
                   config_output, device_hostname, posts, delivery>>

(***************************************************************************)
(* backup_router, lines 179-188: leaving the `with` block releases the     *)
(* lock, whatever happened inside; then the worker returns (True, details).*)
(***************************************************************************)
\* a release that an exception inside the region skips
ReleaseLock_SkippedOnFailure(l, history) ==
    IF \E i \in 1..Len(history) : history[i] \in {"commit_failed", "cleanup_failed"} THEN l ELSE 0

ReleaseLock(l, history) == 0

ExitRegion(e) ==
    /\ pc[e] = "exit"
    /\ lock' = ReleaseLock(lock, steps[e])
    /\ result' = [result EXCEPT ![e] = Success(e)]
    /\ pc' = [pc EXCEPT ![e] = "returned"]
    /\ UNCHANGED <<hosts, creds, limit, now, mclock, disk, repoOpen, commits,
                   mainpc, max_workers, submitted, queue, ident, stamp,
                   listing, steps, success_details, failed_hosts,
                   notifications,
                   config_output, device_hostname, index, posts, delivery>>

(***************************************************************************)
(* main(), lines 237-246: as_completed yields a finished future; its       *)
(* outcome is appended to success_details or to failed_hosts.              *)
(***************************************************************************)
AddSuccess(details, r) ==
    Append(details, [hostname |-> r.hostname, ip |-> r.ip, filename |-> r.filename])
\* a failure that is printed and not recorded
AddFailure_Dropped(failed, h, err) == failed

AddFailure(failed, h, err) ==
    Append(failed, [ip |-> Strip(h), error |-> err])

Collect(e) ==
    /\ mainpc = "collect"
    /\ pc[e] = "returned"
    /\ pc' = [pc EXCEPT ![e] = "recorded"]
    /\ IF result[e].error = "raised"
       THEN /\ failed_hosts' = AddFailure(failed_hosts, hosts[e], "thread")
            /\ UNCHANGED success_details
       ELSE IF result[e].success
            THEN /\ success_details' = AddSuccess(success_details, result[e])
                 /\ UNCHANGED failed_hosts
            ELSE /\ failed_hosts' = AddFailure(failed_hosts, hosts[e], result[e].error)
                 /\ UNCHANGED success_details
    /\ UNCHANGED <<hosts, creds, limit, now, mclock, disk, repoOpen, commits,
                   lock, mainpc, max_workers, submitted, queue, ident, stamp,
                   listing, steps, result, notifications,
                   config_output, device_hostname, index, posts, delivery>>

(***************************************************************************)
(* main(), lines 233-249: the loop over as_completed and the executor's    *)
(* `with` block end when every submitted future has finished.              *)
(***************************************************************************)
\* a main() that does not wait for the workers
AllCollected_NoWait(state) == TRUE

AllCollected(state) == \A e \in DOMAIN state : state[e] \in {"idle", "recorded"}

Finish ==
    /\ mainpc = "collect"
    /\ AllCollected(pc)
    /\ mainpc' = "notify"
    /\ UNCHANGED <<hosts, creds, limit, now, mclock, disk, repoOpen, commits,
                   lock, max_workers, submitted, queue, pc, ident, stamp,
                   listing, steps, result, success_details, failed_hosts,
                   notifications,
                   config_output, device_hostname, index, posts, delivery>>

(***************************************************************************)
(* main(), lines 251-295, and send_telegram_notification, lines 30-48.     *)
(* With any record the message is built and send_telegram_notification is  *)
(* called.  It returns at once ("skipped") unless TELEGRAM_BOT_TOKEN and    *)
(* TELEGRAM_CHAT_ID are both set; nothing else reads them, so whether they *)
(* are set is drawn here.  Otherwise it posts the message: the post is     *)
(* "sent", or "failed" when it raises, which is caught and printed.        *)
(***************************************************************************)
\* a summary that is sent only when a device failed
ShouldNotify_FailuresOnly(failed, details) == failed /= <<>>

ShouldNotify(failed, details) == failed /= <<>> \/ details /= <<>>

Notify ==
    /\ mainpc = "notify"
    /\ IF ShouldNotify(failed_hosts, success_details)
       THEN /\ notifications' = notifications + 1
            /\ \E outcome \in {"skipped", "sent", "failed"} :
                 /\ posts' = IF outcome = "skipped" THEN posts ELSE posts + 1
                 /\ delivery' = outcome
       ELSE UNCHANGED <<notifications, posts, delivery>>
    /\ mainpc' = "done"
    /\ UNCHANGED <<hosts, creds, limit, now, mclock, disk, repoOpen, commits,
                   lock, max_workers, submitted, queue, pc, ident, stamp,
                   listing, steps, result, success_details, failed_hosts,
                   config_output, device_hostname, index>>

(***************************************************************************)
(* The job.                                                                *)
(***************************************************************************)
MainStep == CheckConfig \/ Submit \/ Finish \/ Notify \/ \E e \in Workers : Collect(e)

WorkerStep(e) ==
    \/ Start(e)
    \/ Connect(e)
    \/ WriteFile(e)
    \/ Stat(e)
    \/ Acquire(e)
    \/ Commit(e)
    \/ CleanupList(e)
    \/ CleanupDelete(e)
    \/ ExitRegion(e)

Next ==
    \/ Tick
    \/ CheckConfig
    \/ Submit
    \/ \E e \in Workers : Start(e)
    \/ \E e \in Workers : Connect(e)
    \/ \E e \in Workers : WriteFile(e)
    \/ \E e \in Workers : Stat(e)
    \/ \E e \in Workers : Acquire(e)
    \/ \E e \in Workers : Commit(e)
    \/ \E e \in Workers : CleanupList(e)
    \/ \E e \in Workers : CleanupDelete(e)
    \/ \E e \in Workers : ExitRegion(e)
    \/ \E e \in Workers : Collect(e)
    \/ Finish
    \/ Notify

Spec == Init /\ [][Next]_vars

\* every thread that can take a step eventually takes one
Fairness == WF_vars(MainStep) /\ \A e \in 1..(PoolCap + 2) : WF_vars(e \in Workers /\ WorkerStep(e))

FairSpec == Spec /\ Fairness

(***************************************************************************)
(* The jobs of Init, and a job with more devices than the pool has         *)
(* threads: an empty entry and one more unreachable device than the cap.   *)
(***************************************************************************)
PoolHosts == [i \in 1..(PoolCap + 2) |-> IF i = 1 THEN <<>> ELSE <<"d">>]

PoolInit == Init \/ (InitWith(PoolHosts, 0) /\ creds /\ limit = 1)

PoolSpec == PoolInit /\ [][Next]_vars

(***************************************************************************)
(* cleanup_old_backups on its own: a caller that holds the lock calls it   *)
(* for one identity, on any disk that holds snapshot files of up to three  *)
(* identities, then calls it again, and may write a file of the identity   *)
(* between two calls.                                                      *)
(***************************************************************************)
Bracketed == <<"[", "r", "]", "1">>

Identities == <<R1, <<"c">>, Bracketed>>

\* counts[i] files of Identities[i], written one per second in turn
DiskOf(counts) ==
    [p \in UNION {{Path(Identities[i], t) : t \in 1..counts[i]} : i \in 1..Len(Identities)}
       |-> Len(Identities) * p.ts + (CHOOSE i \in 1..Len(Identities) : Identities[i] = p.id)]

RetentionInit ==
    \E counts \in [1..Len(Identities) -> 0..MaxFiles], i \in 1..Len(Identities) :
        /\ hosts = <<<<"a">>>>
        /\ creds = TRUE
        /\ limit \in 0..MaxLimit
        /\ now = MaxFiles + 1
        /\ mclock = Len(Identities) * (MaxFiles + 1)
        /\ disk = DiskOf(counts)
        /\ repoOpen = TRUE
        /\ commits = <<>>
        /\ lock = 1
        /\ mainpc = "collect"
        /\ max_workers = 1
        /\ submitted = 1
        /\ queue = <<>>
        /\ pc = <<"list">>
        /\ ident = <<Identities[i]>>
        /\ stamp = <<0>>
        /\ listing = <<<<>>>>
        /\ steps = <<<<>>>>
        /\ result = <<NoResult>>
        /\ success_details = <<>>
        /\ failed_hosts = <<>>
        /\ notifications = 0
        /\ config_output = <<<<>>>>
        /\ device_hostname = <<Identities[i]>>
        /\ index = {}
        /\ posts = 0
        /\ delivery = "none"

Count(history, step) == Cardinality({k \in 1..Len(history) : history[k] = step})

\* the caller calls cleanup_old_backups(hostname) once more
CallAgain(e) ==
    /\ pc[e] = "exit"
    /\ Count(steps[e], "cleanup") + Count(steps[e], "cleanup_failed") < MaxCalls
    /\ pc' = [pc EXCEPT ![e] = "list"]
    /\ UNCHANGED <<hosts, creds, limit, now, mclock, disk, repoOpen, commits,
                   lock, mainpc, max_workers, submitted, queue, ident, stamp,
                   listing, steps, result, success_details, failed_hosts,
                   notifications, config_output, device_hostname, index,
                   posts, delivery>>

\* a snapshot file of the identity is written between two calls
AddFile(e) ==
    /\ pc[e] = "exit"
    /\ Count(steps[e], "write") < MaxAdds
    /\ now' = now + 1
    /\ mclock' = mclock + 1
    /\ stamp' = [stamp EXCEPT ![e] = get_timestamp(now)]
    /\ disk' = WriteTo(disk, Path(ident[e], get_timestamp(now)), mclock + 1)
    /\ steps' = [steps EXCEPT ![e] = Append(@, "write")]
    /\ UNCHANGED <<hosts, creds, limit, repoOpen, commits, lock, mainpc,
                   max_workers, submitted, queue, pc, ident, listing, result,
                   success_details, failed_hosts, notifications,
                   config_output, device_hostname, index, posts, delivery>>

RetentionNext ==
    \/ \E e \in Workers : CleanupList(e)
    \/ \E e \in Workers : CleanupDelete(e)
    \/ \E e \in Workers : CallAgain(e)
    \/ \E e \in Workers : AddFile(e)

RetentionSpec == RetentionInit /\ [][RetentionNext]_vars

(***************************************************************************)
(* backup_router on its own, up to the file write: one worker whose        *)
(* session has opened, for any address and any configuration text of up to *)
(* MaxLines lines of up to MaxWords words, indented or not.                *)
(***************************************************************************)
\* a name with every character that line 146 names, and two it does not
Reserved == <<"a", ";", "/", "\\", ":", "*", "?", "\"", "<", ">", "|", "$", "&">>

Words ==
    {Keyword, <<"H", "o", "s", "t", "N", "A", "M", "E">>,
     <<"!">> \o Keyword, <<"#">>, <<"x">> \o Keyword,
     R1, Reserved, <<".", ".">>, Bracketed}

Addresses == {<<" ", "c", ":", "1", " ">>}

LinesOf(indent) == {indent \o Join(ws) : ws \in SeqsUpTo(Words, MaxWords)}

Texts == UNION {SeqsUpTo(LinesOf(indent), MaxLines) : indent \in {<<>>, <<" ">>}}

TextInit ==
    \E text \in Texts, address \in Addresses :
        /\ hosts = <<address>>
        /\ creds = TRUE
        /\ limit = 1
        /\ now = MaxPrior + 1
        /\ mclock = 0
        /\ disk = PriorDisk(0)
        /\ repoOpen = TRUE
        /\ commits = <<>>
        /\ lock = 0
        /\ mainpc = "collect"
        /\ max_workers = 1
        /\ submitted = 1
        /\ queue = <<>>
        /\ pc = <<"connect">>
        /\ ident = <<<<>>>>
        /\ stamp = <<0>>
        /\ listing = <<<<>>>>
        /\ steps = <<<<>>>>
        /\ result = <<NoResult>>
        /\ success_details = <<>>
        /\ failed_hosts = <<>>
        /\ notifications = 0
        /\ config_output = <<text>>
        /\ device_hostname = <<<<>>>>
        /\ index = {}
        /\ posts = 0
        /\ delivery = "none"

TextNext ==
    \/ \E e \in Workers : Connect(e)
    \/ \E e \in Workers : WriteFile(e)

TextSpec == TextInit /\ [][TextNext]_vars

(***************************************************************************)
(* Properties.                                                             *)
(***************************************************************************)
Returned(e) == pc[e] \in {"returned", "recorded"}
Did(e, step) == \E i \in 1..Len(steps[e]) : steps[e][i] = step
OwnFile(e) == Path(ident[e], stamp[e])
JobComplete == repoOpen /\ mainpc \in {"notify", "done"}
CountIp(records, a) == Cardinality({i \in 1..Len(records) : records[i].ip = a})

\* C1: at most one worker is inside the commit+retention region at any
\* time, and that worker is the one holding GIT_LOCK
C1_MutualExclusion ==
    /\ \A e1, e2 \in InRegion : e1 = e2
    /\ \A e \in InRegion : lock = e

\* a worker deletes or commits while another worker, of another identity,
\* is waiting for the lock
C1_Witness ==
    \E e1, e2 \in Workers :
        /\ pc[e1] = "delete"
        /\ pc[e2] = "lock"
        /\ ident[e1] /= ident[e2]

\* C2: when the job completes, the two sequences together hold exactly one
\* record per dispatched (non-empty) entry: for every address, as many
\* records as entries naming it, and each worker's outcome in exactly the
\* sequence of its kind; at no time are there more records than entries
C2_OneRecordPerEntry ==
    /\ \A a \in {Strip(h) : h \in Entries \ {<<>>}} :
         LET entries == Cardinality({e \in Dispatched : Strip(hosts[e]) = a})
             records == CountIp(success_details, a) + CountIp(failed_hosts, a)
         IN  /\ records <= entries
             /\ JobComplete => records = entries
    /\ Len(success_details) = Cardinality({e \in Workers : pc[e] = "recorded" /\ result[e].success})
    /\ Len(failed_hosts) = Cardinality({e \in Workers : pc[e] = "recorded" /\ ~result[e].success})

\* a completed job with a mix of outcomes: one BackupRecord and one
\* FailureRecord
C2_Witness ==
    /\ JobComplete
    /\ success_details /= <<>>
    /\ failed_hosts /= <<>>

\* C3: after cleanup_old_backups has run without error for a worker's
\* identity, the files it listed that are still on disk are min(number
\* listed, limit) many and are the most recently modified ones of the list
C3_RetentionKeepsNewest ==
    \A e \in Workers :
        (pc[e] = "exit" /\ Did(e, "cleanup")) =>
            LET n == Len(listing[e])
                keep == Min(n, limit)
                kept == Range(listing[e]) \cap OnDisk(disk)
            IN  /\ Cardinality(kept) = keep
                /\ kept = {listing[e][i] : i \in (n - keep + 1)..n}

\* C4: no two workers of one run, backing up different addresses, write the
\* same path
C4_UniqueFilenames ==
    \A e1, e2 \in Workers :
        (/\ Strip(hosts[e1]) /= Strip(hosts[e2])
         /\ Did(e1, "write")
         /\ Did(e2, "write")) => OwnFile(e1) /= OwnFile(e2)

\* C5: a worker that has returned does not hold the lock, whatever happened
\* inside the region; the lock is held only by a worker inside the region
C5_LockReleased ==
    /\ \A e \in Workers : Returned(e) => lock /= e
    /\ lock /= 0 => lock \in InRegion

\* a worker has returned after both its commit and its retention pass
\* failed, and another worker then holds the lock
C5_Witness ==
    \E e1, e2 \in Workers :
        /\ Returned(e1)
        /\ Did(e1, "commit_failed")
        /\ Did(e1, "cleanup_failed")
        /\ lock = e2

\* C6: under fair scheduling every job run completes, and main() goes on to
\* the final result only when every dispatched worker has finished and has
\* been recorded
C6_JobCompletes ==
    /\ <>(mainpc = "done")
    /\ [](mainpc \in {"notify", "done"} =>
            \A e \in Workers : pc[e] \in {"idle", "recorded"} /\ lock /= e)

\* a job is done in which a worker had to wait for the lock: two workers
\* went through the region
C6_Witness ==
    /\ mainpc = "done"
    /\ \E e1, e2 \in Workers : e1 /= e2 /\ Did(e1, "cleanup") /\ Did(e2, "cleanup")

C8_FailedSessionStops ==
    \A e \in Workers :
        Reach(hosts[e]) \in {"auth", "ssh", "error"} =>
            /\ pc[e] \in {"idle", "queued", "connect", "returned", "recorded"}
            /\ steps[e] = <<>>
            /\ stamp[e] = 0
            /\ lock /= e
            /\ Returned(e) => result[e] = Failure(e, Reach(hosts[e]))
            /\ pc[e] = "recorded" =>
                 \E i \in 1..Len(failed_hosts) :
                     failed_hosts[i] = [ip |-> Strip(hosts[e]), error |-> Reach(hosts[e])]

\* a worker has failed on its session and been recorded while another
\* worker of the same run has written its file
C8_Witness ==
    \E e1, e2 \in Workers :
        /\ Reach(hosts[e1]) = "ssh"
        /\ pc[e1] = "recorded"
        /\ Did(e2, "write")

\* C9: a worker that has completely written its file returns a
\* BackupRecord whether or not the commit or the retention pass failed,
\* and after a failed commit its file is on disk when it leaves the region
\* to return
C9_StoreFailureKeepsBackup ==
    \A e \in Workers :
        /\ (Returned(e) /\ Did(e, "write")) => result[e].success
        /\ (pc[e] = "exit" /\ Did(e, "commit_failed")) => OwnFile(e) \in OnDisk(disk)

\* C10: the record of a device is a function of what that device and its
\* own file write did, whatever the other devices of the run did: a device
\* whose session fails gets the FailureRecord of that failure, and a
\* device whose session succeeds gets a BackupRecord with its own identity
\* and filename unless its own write failed; a worker whose exception
\* escapes becomes a FailureRecord
C10_NoInterference ==
    \A e \in Workers :
        /\ Returned(e) =>
             IF Reach(hosts[e]) = "ok"
             THEN \/ result[e] = Success(e) /\ ident[e] = DeviceHostname(config_output[e], hosts[e])
                  \/ result[e] = Failure(e, "oserror") /\ Did(e, "write_failed")
             ELSE result[e] = Failure(e, Reach(hosts[e]))
        /\ (pc[e] = "recorded" /\ Reach(hosts[e]) = "raised") =>
             \E i \in 1..Len(failed_hosts) :
                 failed_hosts[i] = [ip |-> Strip(hosts[e]), error |-> "thread"]

(***************************************************************************)
(* The notification.                                                       *)
(***************************************************************************)
HasRecords == failed_hosts /= <<>> \/ success_details /= <<>>

\* what holds of the notification whoever delivers it: at most one call and
\* one post, none before every dispatched worker is recorded, none for the
\* empty device set, and a failed post leaves main() done with one record
\* per recorded worker
NotificationFrame ==
    /\ notifications <= 1
    /\ posts <= 1
    /\ (notifications = 1 \/ posts = 1) => (mainpc = "done" /\ AllCollected(pc))
    /\ hosts = <<<<>>>> => (notifications = 0 /\ posts = 0)
    /\ delivery = "failed" =>
         /\ mainpc = "done"
         /\ Len(success_details) + Len(failed_hosts) =
                Cardinality({e \in Workers : pc[e] = "recorded"})

\* C11 as stated: in one job run there is at most one notification
\* attempt, only after every dispatched worker has finished, and it is
\* made if and only if the JobResult holds at least one record; with the
\* empty device set none is made, and a delivery failure neither changes
\* the JobResult nor stops the run
C11_AttemptIffRecords ==
    /\ NotificationFrame
    /\ mainpc = "done" => (posts = 1 <=> HasRecords)

\* C11, amended: the reporter is called if and only if the JobResult holds
\* at least one record, and it attempts the delivery if and only if it is
\* called and the bot token and the chat id are both set (otherwise it
\* skips the notification); the rest as stated
C11_OneNotification ==
    /\ NotificationFrame
    /\ mainpc = "done" =>
         /\ notifications = 1 <=> HasRecords
         /\ posts = 1 <=> (HasRecords /\ delivery /= "skipped")
         /\ delivery = "none" <=> ~HasRecords

C11_Witness ==
    /\ mainpc = "done"
    /\ delivery = "failed"
    /\ posts = 1
    /\ success_details /= <<>>
    /\ failed_hosts /= <<>>

(***************************************************************************)
(* The job-fatal paths.                                                    *)
(***************************************************************************)
\* a step of main() or of a pool thread
ProgramStep == MainStep \/ \E e \in Workers : WorkerStep(e)

LastStep(e) == IF steps[e] = <<>> THEN "none" ELSE steps[e][Len(steps[e])]

CommitAttempted(e) == Did(e, "commit") \/ Did(e, "commit_failed")

\* the files written during this job: the earlier ones are older
WrittenByJob == {p \in OnDisk(disk) : p.ts > MaxPrior}

\* the order of the steps, and the region they run in
StepsInOrder ==
    /\ \A e \in Workers :
         (Returned(e) /\ result[e].success) =>
             \E c \in {"commit", "commit_failed"}, r \in {"cleanup", "cleanup_failed"} :
                 steps[e] = <<"write", c, r>>
    /\ \A e \in Workers : CommitAttempted(e) => steps[e][1] = "write"
    /\ \A e \in Workers : pc[e] \in {"commit", "list", "delete", "exit"} => lock = e

\* C14: a successful worker writes, commits and runs retention in that
\* order, each once, the commit only after a complete write and the
\* retention in the same lock-held region; and when the workers have
\* finished no snapshot file written by the job is on disk without a commit
\* attempt made for it
C14_WriteCommitRetention ==
    /\ StepsInOrder
    /\ mainpc \in {"notify", "done"} =>
         \A p \in WrittenByJob : \E e \in Workers : OwnFile(e) = p /\ CommitAttempted(e)

(***************************************************************************)
(* Retention and the version history.                                      *)
(***************************************************************************)
InCleanup(e) == pc[e] \in {"list", "delete"}

\* C15: the history is append-only and no staged path is ever unstaged; a
\* step of cleanup_old_backups adds or removes no commit and no staged
\* path; a file that retention deletes from disk stays in the history and
\* in the index
C15_CleanupKeepsHistory ==
    [][/\ Len(commits') >= Len(commits)
       /\ SubSeq(commits', 1, Len(commits)) = commits
       /\ index \subseteq index'
       /\ (\E e \in Workers : InCleanup(e) /\ pc'[e] /= pc[e]) =>
              (commits' = commits /\ index' = index)
       /\ \A p \in OnDisk(disk) \ OnDisk(disk') :
              /\ p \in Range(commits) => p \in Range(commits')
              /\ p \in index => p \in index']_vars

\* retention has deleted a file of this job that is in the history
C15_Witness ==
    \E p \in Range(commits) :
        /\ p \notin OnDisk(disk)
        /\ p \in index
        /\ \E e \in Workers : Did(e, "cleanup") /\ p \in Range(listing[e])

(***************************************************************************)
(* The identity a worker derives.                                          *)
(***************************************************************************)
PastConnect(e) == pc[e] \notin {"idle", "queued", "connect"} /\ Reach(hosts[e]) = "ok"

FirstWordIsKeyword(line) ==
    LET ws == Split(line) IN ws /= <<>> /\ Lower(ws[1]) = Keyword

BeginsWithMarker(line) ==
    LET t == LStrip(line) IN t /= <<>> /\ t[1] \in {"!", "#"}

\* the lines whose first word is the keyword and that begin with no marker
Declaring(lines) ==
    {i \in 1..Len(lines) : FirstWordIsKeyword(lines[i]) /\ ~BeginsWithMarker(lines[i])}

First(S) == CHOOSE i \in S : \A j \in S : i <= j

\* C16 as stated: the identity is the second token of the first line whose
\* first token is the hostname keyword, in any case, and that does not
\* begin with ! or #; when there is no such line it is the connection
\* address
C16_SecondTokenOfFirstLine ==
    \A e \in Workers :
        PastConnect(e) =>
            LET lines == config_output[e]
                found == Declaring(lines)
            IN  IF found = {}
                THEN device_hostname[e] = Strip(hosts[e])
                ELSE /\ Len(Split(lines[First(found)])) >= 2
                     /\ device_hostname[e] = Split(lines[First(found)])[2]

\* C16, amended: the identity is the second token of the first line that
\* has at least two tokens, whose first token is the hostname keyword, in
\* any case, and that does not begin with ! or #; a line of the keyword
\* alone is skipped like the lines that have the keyword elsewhere or
\* behind a marker; when no line matches it is the connection address
C16_IdentityFromConfig ==
    \A e \in Workers :
        PastConnect(e) =>
            LET lines == config_output[e]
                found == {i \in Declaring(lines) : Len(Split(lines[i])) >= 2}
            IN  IF found = {}
                THEN device_hostname[e] = Strip(hosts[e])
                ELSE device_hostname[e] = Split(lines[First(found)])[2]

\* a line that has the keyword and is skipped, then the line that declares
C16_Witness ==
    \E e \in Workers :
        /\ PastConnect(e)
        /\ Len(config_output[e]) = 2
        /\ Contains(Lower(config_output[e][1]), Keyword)
        /\ Declaring(config_output[e]) = {2}
        /\ Len(Split(config_output[e][2])) = 2
        /\ device_hostname[e] = Split(config_output[e][2])[2]
        /\ device_hostname[e] /= Strip(hosts[e])

(***************************************************************************)
(* The sanitized identity.                                                 *)
(***************************************************************************)
\* the path separators, the characters reserved in file names, and the
\* shell metacharacters that occur in the model's texts
Unsafe == {"/", "\\", ":", "*", "?", "\"", "<", ">", "|", ";", "$", "&"}

\* {BACKUP_DIR}/{id} is a directory directly under BACKUP_DIR, other than
\* BACKUP_DIR itself and its parent
IsSubdirectoryName(id) ==
    /\ id \notin {<<>>, <<".">>, <<".", ".">>}
    /\ \A i \in 1..Len(id) : id[i] \notin {"/", "\\"}

\* C17: the sanitized identity holds no path separator, reserved character
\* or shell metacharacter, each such character of the raw identity having
\* been replaced by an underscore, and the snapshot file is written in the
\* identity's own subdirectory directly under the backup root
C17_SanitizedIsSafe ==
    \A e \in Workers :
        PastConnect(e) =>
            /\ \A i \in 1..Len(ident[e]) : ident[e][i] \notin Unsafe
            /\ ident[e] = [i \in 1..Len(device_hostname[e]) |->
                              IF device_hostname[e][i] \in Unsafe
                              THEN "_" ELSE device_hostname[e][i]]
            /\ IsSubdirectoryName(ident[e])
            /\ \A p \in OnDisk(disk) : p.id = ident[e]

(***************************************************************************)
(* Retention and the file a worker has just written.                       *)
(***************************************************************************)
\* C18: with a limit of at least 1, the retention pass a worker runs after
\* its commit does not delete the file that worker wrote, and the file
\* named in its BackupRecord is on disk when the worker returns, also when
\* several workers back up the same identity
C18_OwnFileSurvives ==
    limit >= 1 =>
        \A e \in Workers :
            /\ (pc[e] = "exit" /\ OwnFile(e) \in Range(listing[e])) =>
                   OwnFile(e) \in OnDisk(disk)
            /\ (pc[e] = "returned" /\ result[e].success) =>
                   result[e].filename \in OnDisk(disk)

(***************************************************************************)
(* Retention and the other identities.                                     *)
(***************************************************************************)
\* C19: a step of cleanup_old_backups for an identity deletes only files
\* of that identity's subdirectory and leaves the files of every other
\* identity on disk
C19_OnlyOwnIdentity ==
    [][\A e \in Workers :
          (pc[e] = "delete" /\ pc'[e] = "exit") =>
              \A p \in OnDisk(disk) \ OnDisk(disk') : p.id = ident[e]]_vars

====
